---- MODULE Spec2Model ----
(***************************************************************************)
(* A model of the WAHA command-line scripts: the shared module            *)
(* waha_client.py (env loader, API-key check, client factory, pp, die,    *)
(* check) and the six command scripts that use it.  One run of one script *)
(* is one behaviour: import of waha_client, argument parsing, entering    *)
(* the `with client()` block, the single HTTP request, and the handling   *)
(* of its response up to the end of the process.                          *)
(*                                                                         *)
(* Text is modelled as a sequence of tokens: " " is a whitespace          *)
(* character, "#" and "=" are themselves, and "k" is a character that is  *)
(* none of these.  The variable name WAHA_API_KEY is abbreviated to the   *)
(* one-token name <<"k">>.                                                *)
(***************************************************************************)
EXTENDS Naturals, Sequences, FiniteSets

VARIABLES
    pc,         \* position of the process: import, main, parsed, in_with, awaiting, exited
    environ,    \* os.environ: a function from names to values
    environ0,   \* os.environ as it was when the process started (history)
    envFile,    \* ~/documents/waha/.env: [exists, lines]
    API_KEY,    \* waha_client.API_KEY
    script,     \* which script runs
    command,    \* args.command (or the script's only command)
    args,       \* the parsed arguments
    cl,         \* the httpx.Client of the with block: none, open, closed
    requests,   \* the HTTP requests issued so far, in order
    resp,       \* the response the request got
    stdout,     \* lines written to standard output
    stderr,     \* messages written to the diagnostic stream
    exitCode,   \* the status the process ends with: 0 unless an exit or an exception sets it
    checked     \* what check() did with the response (history)

vars == <<pc, environ, environ0, envFile, API_KEY, script, command, args, cl,
          requests, resp, stdout, stderr, exitCode, checked>>

-----------------------------------------------------------------------------
(* Bounds of the model *)

\* longest line of the env file, in tokens
MaxLineLen == 3
\* most lines of the env file
MaxLines == 2
\* most items of a JSON array in a response
MaxItems == 2

-----------------------------------------------------------------------------
(* Text *)

Alphabet == {" ", "#", "=", "k"}

Texts(n) == UNION {[1..m -> Alphabet] : m \in 0..n}

IsSpace(c) == c = " "

RECURSIVE lstrip(_)
lstrip(s) == IF s # <<>> /\ IsSpace(Head(s)) THEN lstrip(Tail(s)) ELSE s

RECURSIVE rstrip(_)
rstrip(s) ==
    IF s # <<>> /\ IsSpace(s[Len(s)]) THEN rstrip(SubSeq(s, 1, Len(s) - 1)) ELSE s

\* str.strip()
strip(s) == rstrip(lstrip(s))

\* str.startswith(c)
startswith(s, c) == s # <<>> /\ Head(s) = c

\* c in s
Contains(s, c) == \E i \in 1..Len(s) : s[i] = c

\* str.partition(c): the text before the first c, the separator, the text after it
partition(s, c) ==
    IF Contains(s, c)
    THEN LET i == CHOOSE j \in 1..Len(s) : s[j] = c /\ \A h \in 1..(j - 1) : s[h] # c
         IN  <<SubSeq(s, 1, i - 1), <<c>>, SubSeq(s, i + 1, Len(s))>>
    ELSE <<s, <<>>, <<>>>>

-----------------------------------------------------------------------------
(* waha_client.py: the env loader *)

API_KEY_NAME == <<"k">>

EmptyEnv == [x \in {} |-> <<>>]

\* os.environ[key] = value
SetEnv(env, key, value) ==
    [x \in (DOMAIN env) \cup {key} |-> IF x = key THEN value ELSE env[x]]

\* os.environ.get(key, default)
EnvGet(env, key, default) == IF key \in DOMAIN env THEN env[key] ELSE default

\* LoadLine without its test `key not in os.environ`
LoadLineOverwrite(env, raw) ==
    LET line == strip(raw) IN
    IF line = <<>> \/ startswith(line, "#") \/ ~Contains(line, "=")
    THEN env
    ELSE LET parts == partition(line, "=")
             key   == strip(parts[1])
             value == strip(parts[3])
         IN  IF key # <<>> THEN SetEnv(env, key, value) ELSE env

\* the body of the loop of _load_env, for one line of the file
LoadLine(env, raw) ==
    LET line == strip(raw) IN
    IF line = <<>> \/ startswith(line, "#") \/ ~Contains(line, "=")
    THEN env
    ELSE LET parts == partition(line, "=")
             key   == strip(parts[1])
             value == strip(parts[3])
         IN  IF key # <<>> /\ key \notin DOMAIN env
             THEN SetEnv(env, key, value)
             ELSE env

RECURSIVE LoadLines(_, _)
LoadLines(env, lines) ==
    IF lines = <<>> THEN env
    ELSE LoadLines(LoadLine(env, Head(lines)), Tail(lines))

_load_env(file, env) ==
    IF ~file.exists THEN env ELSE LoadLines(env, file.lines)

-----------------------------------------------------------------------------
(* Values shared by the scripts *)

NoneV == "<None>"

\* a decoded or undecodable response body; every body has the same fields
Body(kind, items, numberExists, chatId) ==
    [kind |-> kind, items |-> items, numberExists |-> numberExists, chatId |-> chatId]

NoBody == Body("none", <<>>, "absent", "absent")
NoResp == [status |-> 0, body |-> NoBody]
NoArgs == [session |-> NoneV, target |-> NoneV, text |-> NoneV, url |-> NoneV,
           media_type |-> NoneV, caption |-> NoneV, reply_to |-> NoneV,
           filename |-> NoneV, mimetype |-> NoneV, participants |-> <<>>]

\* what a piece of code does: the lines it printed, the messages it wrote to
\* the diagnostic stream, how it ended (return, exit, raise) and what it returned
Outcome(tag, out, err, data) == [tag |-> tag, out |-> out, err |-> err, data |-> data]

NoCheck == Outcome("none", <<>>, <<>>, NoBody)

\* one message on the diagnostic stream; every message has the same fields
ErrLine(t, code, src, body) == [t |-> t, code |-> code, src |-> src, body |-> body]

\* print("Error: WAHA_API_KEY not set. ...", file=sys.stderr)
KeyErrorLine == ErrLine("Error: WAHA_API_KEY not set", 0, "", NoBody)

-----------------------------------------------------------------------------
(* waha_client.py at import: _load_env(), API_KEY, the API-key check *)

\* KeyMissing as a test `API_KEY is None`, which the default "" never meets
KeyMissingNone(key) == FALSE

\* not API_KEY
KeyMissing(key) == key = <<>>

ModuleInit ==
    /\ pc = "import"
    /\ LET env == _load_env(envFile, environ)
           key == EnvGet(env, API_KEY_NAME, <<>>)
       IN  /\ environ' = env
           /\ API_KEY' = key
           /\ IF KeyMissing(key)
              THEN /\ stderr' = Append(stderr, KeyErrorLine)
                   /\ exitCode' = 1
                   /\ pc' = "exited"
              ELSE /\ pc' = "main"
                   /\ UNCHANGED <<stderr, exitCode>>
    /\ UNCHANGED <<environ0, envFile, script, command, args, cl, requests, resp,
                   stdout, checked>>

-----------------------------------------------------------------------------
(* The env loader on every small env file *)

Lines == Texts(MaxLineLen)

\* lines an env file is usually made of
SampleLines == { <<"k", "=", "k">>, <<"k", "=">>, <<"k", "k", "=", "#">> }

\* files of at most MaxLines lines: sample lines, and any one line at all
EnvFiles ==
    {<<>>} \cup
    UNION { UNION { { [j \in 1..n |-> IF j = i THEN l ELSE s[j]] : l \in Lines }
                    : i \in 1..n, s \in [1..n -> SampleLines] }
            : n \in 1..MaxLines }

\* environments the process may start with: some of two names already set
EnvKeys == { <<"k">>, <<"k", "k">> }
EnvVals == { <<"#">> }
Environs == UNION { [K -> EnvVals] : K \in SUBSET EnvKeys }

InitProcess ==
    /\ pc = "import"
    /\ environ0 = environ
    /\ API_KEY = <<>>
    /\ script = NoneV
    /\ command = NoneV
    /\ args = NoArgs
    /\ cl = "none"
    /\ requests = <<>>
    /\ resp = NoResp
    /\ stdout = <<>>
    /\ stderr = <<>>
    /\ exitCode = 0
    /\ checked = NoCheck

InitEnv ==
    /\ environ \in Environs
    /\ envFile \in { [exists |-> FALSE, lines |-> <<>>] }
                   \cup { [exists |-> TRUE, lines |-> f] : f \in EnvFiles }
    /\ InitProcess

NextEnv == ModuleInit

SpecEnv == InitEnv /\ [][NextEnv]_vars

-----------------------------------------------------------------------------
(* Arguments: what argparse hands to each main() *)

Scripts == {"groups", "send_message", "contacts", "list_chats", "send_media",
            "session"}

\* `if x:` for an optional string argument
Truthy(s) == s # NoneV /\ s # ""

\* dict[key] = value
Put(f, key, value) ==
    [x \in (DOMAIN f) \cup {key} |-> IF x = key THEN value ELSE f[x]]

EmptyDict == [x \in {} |-> ""]

Commands(s) ==
    CASE s = "groups"       -> {"list", "info", "participants", "create"}
      [] s = "send_message" -> {"send"}
      [] s = "contacts"     -> {"list", "info", "check", "block", "unblock"}
      [] s = "list_chats"   -> {"chats", "overview", "messages"}
      [] s = "send_media"   -> {"send"}
      [] s = "session"      -> {"list", "info", "start", "stop", "restart", "logout"}

Optional == {NoneV, "", "x"}

ArgsFor(s, c) ==
    CASE s = "groups" /\ c = "list" ->
            { [NoArgs EXCEPT !.session = "default"] }
      [] s = "groups" /\ c \in {"info", "participants"} ->
            { [NoArgs EXCEPT !.session = "default", !.target = "g1"] }
      [] s = "groups" /\ c = "create" ->
            { [NoArgs EXCEPT !.session = "default", !.target = "G",
                             !.participants = ps] : ps \in {<<"p1">>, <<"p1", "p2">>} }
      [] s = "send_message" ->
            { [NoArgs EXCEPT !.session = "default", !.target = "c1", !.text = "hi",
                             !.reply_to = r] : r \in Optional }
      [] s = "contacts" /\ c = "list" ->
            { [NoArgs EXCEPT !.session = "default"] }
      [] s = "contacts" /\ c \in {"info", "block", "unblock"} ->
            { [NoArgs EXCEPT !.session = "default", !.target = "c1"] }
      [] s = "contacts" /\ c = "check" ->
            { [NoArgs EXCEPT !.session = "default", !.target = "628"] }
      [] s = "list_chats" /\ c \in {"chats", "overview"} ->
            { [NoArgs EXCEPT !.session = "default"] }
      [] s = "list_chats" /\ c = "messages" ->
            { [NoArgs EXCEPT !.session = "default", !.target = "c1"] }
      [] s = "send_media" ->
            { [NoArgs EXCEPT !.session = "default", !.target = "c1", !.url = "u",
                             !.media_type = mt, !.caption = cap, !.reply_to = r,
                             !.filename = fn, !.mimetype = mime]
              : mt \in {"image", "file", "video", "voice"}, cap \in Optional,
                r \in {NoneV, "x"}, fn \in {NoneV, "x"}, mime \in {NoneV, "x"} }
      [] s = "session" /\ c = "list" -> { NoArgs }
      [] s = "session" /\ c # "list" -> { [NoArgs EXCEPT !.target = "default"] }

\* p.parse_args(): a usage error ends the process with code 2
UsageLine == ErrLine("usage", 0, "", NoBody)

ParseArgs ==
    /\ pc = "main"
    /\ \E s \in Scripts :
          \/ /\ script' = s
             /\ stderr' = Append(stderr, UsageLine)
             /\ exitCode' = 2
             /\ pc' = "exited"
             /\ UNCHANGED <<command, args>>
          \/ \E c \in Commands(s) : \E a \in ArgsFor(s, c) :
                /\ script' = s
                /\ command' = c
                /\ args' = a
                /\ pc' = "parsed"
                /\ UNCHANGED <<stderr, exitCode>>
    /\ UNCHANGED <<environ, environ0, envFile, API_KEY, cl, requests, resp, stdout,
                   checked>>

-----------------------------------------------------------------------------
(* The one HTTP request of each command *)

Request(method, path, params, json, file, list) ==
    [method |-> method, path |-> path, params |-> params, json |-> json,
     file |-> file, list |-> list, key |-> API_KEY]

Get(path, params) == Request("GET", path, params, EmptyDict, EmptyDict, <<>>)
Post(path, json, file, list) == Request("POST", path, EmptyDict, json, file, list)

SessionParam(a) == [x \in {"session"} |-> a.session]

groups_request(c, a) ==
    CASE c = "list" -> Get(<<"api", a.session, "groups">>, EmptyDict)
      [] c = "info" -> Get(<<"api", a.session, "groups", a.target>>, EmptyDict)
      [] c = "participants" ->
            Get(<<"api", a.session, "groups", a.target, "participants">>, EmptyDict)
      [] c = "create" ->
            Post(<<"api", a.session, "groups">>,
                 Put(Put(EmptyDict, "name", a.target), "participants", "<list>"),
                 EmptyDict, a.participants)

send_message_request(a) ==
    LET base    == Put(Put(Put(EmptyDict, "chatId", a.target), "text", a.text),
                       "session", a.session)
        payload == IF Truthy(a.reply_to) THEN Put(base, "reply_to", a.reply_to)
                   ELSE base
    IN  Post(<<"api", "sendText">>, payload, EmptyDict, <<>>)

contacts_request(c, a) ==
    CASE c = "list" -> Get(<<"api", "contacts", "all">>, SessionParam(a))
      [] c = "info" ->
            Get(<<"api", "contacts">>, Put(SessionParam(a), "contactId", a.target))
      [] c = "check" ->
            Get(<<"api", "contacts", "check-exists">>,
                Put(SessionParam(a), "phone", a.target))
      [] c \in {"block", "unblock"} ->
            Post(<<"api", "contacts", c>>,
                 Put(SessionParam(a), "contactId", a.target), EmptyDict, <<>>)

Paging == Put(Put(EmptyDict, "limit", "20"), "offset", "0")

list_chats_request(c, a) ==
    CASE c = "chats" ->
            Get(<<"api", a.session, "chats">>,
                Put(Put(Paging, "sortBy", "conversationTimestamp"), "sortOrder", "desc"))
      [] c = "overview" -> Get(<<"api", a.session, "chats", "overview">>, Paging)
      [] c = "messages" ->
            Get(<<"api", a.session, "chats", a.target, "messages">>,
                Put(Put(Put(Paging, "downloadMedia", "false"), "sortBy", "timestamp"),
                    "sortOrder", "desc"))

ENDPOINTS ==
    [mt \in {"image", "file", "video", "voice"} |->
        CASE mt = "image" -> <<"api", "sendImage">>
          [] mt = "file"  -> <<"api", "sendFile">>
          [] mt = "video" -> <<"api", "sendVideo">>
          [] mt = "voice" -> <<"api", "sendVoice">>]

\* NeedsConvert with "voice" forgotten
NeedsConvertVideoOnly(mt) == mt = "video"

\* payload["convert"] = True for the types that need conversion
NeedsConvert(mt) == mt \in {"video", "voice"}

send_media_request(a) ==
    LET f0 == Put(EmptyDict, "url", a.url)
        f1 == IF Truthy(a.mimetype) THEN Put(f0, "mimetype", a.mimetype) ELSE f0
        file_obj == IF Truthy(a.filename) THEN Put(f1, "filename", a.filename) ELSE f1
        p0 == Put(Put(Put(EmptyDict, "chatId", a.target), "file", "<file_obj>"),
                  "session", a.session)
        p1 == IF Truthy(a.caption) THEN Put(p0, "caption", a.caption) ELSE p0
        p2 == IF Truthy(a.reply_to) THEN Put(p1, "reply_to", a.reply_to) ELSE p1
        payload == IF NeedsConvert(a.media_type) THEN Put(p2, "convert", "true") ELSE p2
    IN  Post(ENDPOINTS[a.media_type], payload, file_obj, <<>>)

session_request(c, a) ==
    CASE c = "list" -> Get(<<"api", "sessions">>, EmptyDict)
      [] c = "info" -> Get(<<"api", "sessions", a.target>>, EmptyDict)
      [] c \in {"start", "stop", "restart", "logout"} ->
            Post(<<"api", "sessions", a.target, c>>, EmptyDict, EmptyDict, <<>>)

RequestOf(s, c, a) ==
    CASE s = "groups"       -> groups_request(c, a)
      [] s = "send_message" -> send_message_request(a)
      [] s = "contacts"     -> contacts_request(c, a)
      [] s = "list_chats"   -> list_chats_request(c, a)
      [] s = "send_media"   -> send_media_request(a)
      [] s = "session"      -> session_request(c, a)

-----------------------------------------------------------------------------
(* The with block: client(), the request, the end of the block *)

\* client(): a new httpx.Client
client == "open"

\* ClientExit of a client that is never closed (c = client() without with)
ClientExitLeak(c) == c

\* httpx.Client.__exit__: the end of the with block, on every way out of it
ClientExit(c) == "closed"

\* with client() as c:
EnterWith ==
    /\ pc = "parsed"
    /\ cl' = client
    /\ pc' = "in_with"
    /\ UNCHANGED <<environ, environ0, envFile, API_KEY, script, command, args,
                   requests, resp, stdout, stderr, exitCode, checked>>

\* SendRequest that sends the request a second time
SendRequestAgain ==
    /\ pc = "in_with"
    /\ requests' = Append(Append(requests, RequestOf(script, command, args)),
                          RequestOf(script, command, args))
    /\ pc' = "awaiting"
    /\ UNCHANGED <<environ, environ0, envFile, API_KEY, script, command, args, cl,
                   resp, stdout, stderr, exitCode, checked>>

\* c.get(...) / c.post(...): the request goes out
SendRequest ==
    /\ pc = "in_with"
    /\ requests' = Append(requests, RequestOf(script, command, args))
    /\ pc' = "awaiting"
    /\ UNCHANGED <<environ, environ0, envFile, API_KEY, script, command, args, cl,
                   resp, stdout, stderr, exitCode, checked>>

Traceback(what) == ErrLine(what, 0, "", NoBody)

\* c.get(...) / c.post(...) raises (timeout, connection refused): the exception
\* leaves the with block and ends the process
TransportError ==
    /\ pc = "awaiting"
    /\ stderr' = Append(stderr, Traceback("Traceback: httpx.TransportError"))
    /\ cl' = ClientExit(cl)
    /\ exitCode' = 1
    /\ pc' = "exited"
    /\ UNCHANGED <<environ, environ0, envFile, API_KEY, script, command, args,
                   requests, resp, stdout, checked>>

-----------------------------------------------------------------------------
(* Responses *)

\* the status below which a response is a success
ErrorStatus == 400

Statuses == {200, 399, 400, 503}

\* an item of a JSON array: a JSON object with the fields the scripts read, or
\* a value that is no object (a number, a string, null).  lastMessage is
\*   "absent"      missing, null or otherwise falsy
\*   "nobody"      an object whose body is missing or falsy
\*   "body"        an object whose body is a non-empty string
\*   "nondict"     a truthy value that is no object
\*   "unsliceable" an object whose body is truthy and cannot be sliced (a number)
Item(isObj, id, ts, lastMessage) ==
    [isObj |-> isObj, id |-> id, ts |-> ts, lastMessage |-> lastMessage]

NonObject == Item(FALSE, 0, 0, "absent")

LastMessages == {"absent", "nobody", "body", "nondict", "unsliceable"}

\* the commands that go through a list: `if isinstance(data, list): for ...`
Loops(s, c) ==
    \/ s = "groups" /\ c \in {"list", "participants"}
    \/ s = "contacts" /\ c = "list"
    \/ s = "session" /\ c = "list"
    \/ s = "list_chats"

\* the items a response to the command may hold, told apart as far as the
\* command reads them
ItemsOf(s, c) ==
    IF s = "list_chats" /\ c = "overview"
    THEN {NonObject} \cup { Item(TRUE, 1, 1, lm) : lm \in LastMessages }
    ELSE IF s = "list_chats" /\ c = "messages"
    THEN {NonObject} \cup { Item(TRUE, i, t, "absent") : i \in 1..2, t \in 1..2 }
    ELSE IF Loops(s, c)
    THEN {NonObject} \cup { Item(TRUE, i, i, "absent") : i \in 1..2 }
    ELSE {NonObject}

Arrays(S) == UNION { [1..n -> S] : n \in 0..MaxItems }

FieldKinds == {"absent", "falsy", "truthy"}

\* the bodies a response may carry: text that is no JSON, a JSON array, a JSON
\* object, a JSON value that is neither
Bodies(s, c) ==
    { Body("text", <<>>, "absent", "absent"), Body("scalar", <<>>, "absent", "absent") }
    \cup { Body("list", xs, "absent", "absent") : xs \in Arrays(ItemsOf(s, c)) }
    \cup IF s = "contacts" /\ c = "check"
         THEN { Body("dict", <<>>, ne, ch) : ne \in FieldKinds, ch \in FieldKinds }
         ELSE { Body("dict", <<>>, "absent", "absent") }

Responses(s, c) == { [status |-> st, body |-> b] : st \in Statuses, b \in Bodies(s, c) }

-----------------------------------------------------------------------------
(* waha_client.py: pp, die, check *)

\* one line on standard output; every line has the same fields
Line(t, id, ts, n, text, data) ==
    [t |-> t, id |-> id, ts |-> ts, n |-> n, text |-> text, data |-> data]

\* pp(data): json.dumps of a decoded body never fails
pp(data) == <<Line("dump", 0, 0, 0, <<>>, data)>>

\* die(msg): print(f"Error: {msg}", file=sys.stderr); sys.exit(1)
die(msg) == Outcome("exit", <<>>, <<msg>>, NoBody)

\* IsError with > for >=
IsErrorAbove(status) == status > ErrorStatus

\* resp.status_code >= 400
IsError(status) == status >= ErrorStatus

\* resp.json() raises on a body that is no JSON
Decodes(body) == body.kind # "text"

\* f"HTTP {resp.status_code}: {detail}", behind the "Error: " of die: the
\* detail is the decoded body (src "json"), or the raw text (src "text")
HttpError(status, body) ==
    ErrLine("Error: HTTP", status, IF Decodes(body) THEN "json" ELSE "text", body)

check(r) ==
    IF IsError(r.status)
    THEN die(HttpError(r.status, r.body))
    ELSE IF Decodes(r.body)
         THEN Outcome("return", <<>>, <<>>, r.body)
         ELSE Outcome("raise", <<>>, <<Traceback("Traceback: JSONDecodeError")>>, NoBody)

-----------------------------------------------------------------------------
(* The commands *)

Blank == Line("blank", 0, 0, 0, <<>>, NoBody)
Count(n, noun) == Line("count", 0, 0, n, <<noun>>, NoBody)

\* PrintCount under `if data:`, which an empty list does not pass
PrintCountNonEmpty(n, noun) == IF n = 0 THEN <<>> ELSE <<Blank, Count(n, noun)>>

\* print(f"\n({len(data)} <noun>)"): an empty line, then the count line
PrintCount(n, noun) == <<Blank, Count(n, noun)>>

\* the body of a for loop over the items of a list, for one item: the lines it
\* prints, or the exception that x.get raises on a value that is no object
PrintItem(style, x) ==
    IF ~x.isObj
    THEN [ok |-> FALSE, out |-> <<>>]
    ELSE CASE style = "summary" ->
                [ok |-> TRUE, out |-> <<Line("summary", x.id, 0, 0, <<>>, NoBody)>>]
           [] style = "overview" ->
                IF x.lastMessage \in {"nondict", "unsliceable"}
                THEN [ok |-> FALSE, out |-> <<>>]
                ELSE [ok |-> TRUE,
                      out |-> <<Line("summary", x.id, 0, 0, <<>>, NoBody)>> \o
                              IF x.lastMessage = "body"
                              THEN <<Line("preview", x.id, 0, 0, <<>>, NoBody)>>
                              ELSE <<>>]
           [] style = "message" ->
                [ok |-> TRUE, out |-> <<Line("message", x.id, x.ts, 0, <<>>, NoBody),
                                        Line("message id", x.id, 0, 0, <<>>, NoBody)>>]

RECURSIVE PrintItems(_, _, _)
PrintItems(style, xs, out) ==
    IF xs = <<>> THEN [ok |-> TRUE, out |-> out]
    ELSE LET p == PrintItem(style, Head(xs)) IN
         IF p.ok THEN PrintItems(style, Tail(xs), out \o p.out)
         ELSE [ok |-> FALSE, out |-> out]

\* reversed that keeps the order
reversedNot(xs) == xs

\* reversed(data)
reversed(xs) == [i \in 1..Len(xs) |-> xs[Len(xs) + 1 - i]]

\* data = check(...); if isinstance(data, list): for ...: print(...);
\* print(count) else: pp(data)
\* the order a command goes through the list in: `for msg in reversed(data)` in
\* list_messages, `for x in data` elsewhere
ItemsInOrder(style, xs) == IF style = "message" THEN reversed(xs) ELSE xs

ListCommand(r, style, noun) ==
    LET chk == check(r) IN
    IF chk.tag # "return" THEN chk
    ELSE IF chk.data.kind = "list"
         THEN LET p == PrintItems(style, ItemsInOrder(style, chk.data.items), <<>>) IN
              IF p.ok
              THEN Outcome("return", p.out \o PrintCount(Len(chk.data.items), noun),
                           <<>>, NoBody)
              ELSE Outcome("raise", p.out, <<Traceback("Traceback: exception in the print loop")>>,
                           NoBody)
         ELSE Outcome("return", pp(chk.data), <<>>, NoBody)

\* pp(check(...))
PpCommand(r) ==
    LET chk == check(r) IN
    IF chk.tag # "return" THEN chk
    ELSE Outcome("return", pp(chk.data), <<>>, NoBody)

groups_main(c, a, r) ==
    CASE c = "list"         -> ListCommand(r, "summary", "groups")
      [] c = "participants" -> ListCommand(r, "summary", "participants")
      [] c \in {"info", "create"} -> PpCommand(r)

send_message_main(a, r) == PpCommand(r)

\* Exists that looks at numberExists alone
ExistsNumberOnly(data) == data.numberExists = "truthy"

\* exists = data.get("numberExists") or data.get("chatId")
Exists(data) == data.numberExists = "truthy" \/ data.chatId = "truthy"

\* print(f"\n  Number {args.phone} {status} on WhatsApp")
Sentence(phone, status) == Line("sentence", 0, 0, 0, <<phone, status>>, NoBody)

contacts_check(a, r) ==
    LET chk == check(r) IN
    IF chk.tag # "return" THEN chk
    ELSE Outcome("return",
                 pp(chk.data) \o
                 IF chk.data.kind = "dict"
                 THEN <<Sentence(a.target, IF Exists(chk.data) THEN "exists"
                                           ELSE "NOT found")>>
                 ELSE <<>>,
                 <<>>, NoBody)

contacts_main(c, a, r) ==
    CASE c = "list"  -> ListCommand(r, "summary", "contacts")
      [] c = "check" -> contacts_check(a, r)
      [] c \in {"info", "block", "unblock"} -> PpCommand(r)

list_chats(a, r) == ListCommand(r, "summary", "chats")
list_overview(a, r) == ListCommand(r, "overview", "chats")
list_messages(a, r) == ListCommand(r, "message", "messages")

list_chats_main(c, a, r) ==
    CASE c = "chats"    -> list_chats(a, r)
      [] c = "overview" -> list_overview(a, r)
      [] c = "messages" -> list_messages(a, r)

send_media_main(a, r) == PpCommand(r)

session_main(c, a, r) ==
    CASE c = "list" -> ListCommand(r, "summary", "sessions")
      [] c = "info" -> PpCommand(r)
      [] c \in {"start", "stop", "restart", "logout"} ->
            LET o == PpCommand(r) IN
            IF o.tag # "return" THEN o
            ELSE [o EXCEPT !.out = @ \o <<Line("notice", 0, 0, 0, <<a.target, c>>, NoBody)>>]

\* the rest of main() once the response is there: what it prints, the end of
\* the with block, the end of the process
Finish(r, o) ==
    /\ resp' = r
    /\ checked' = check(r)
    /\ stdout' = stdout \o o.out
    /\ stderr' = stderr \o o.err
    /\ cl' = ClientExit(cl)
    /\ exitCode' = IF o.tag = "return" THEN 0 ELSE 1
    /\ pc' = "exited"
    /\ UNCHANGED <<environ, environ0, envFile, API_KEY, script, command, args,
                   requests>>

GroupsMain ==
    /\ pc = "awaiting" /\ script = "groups"
    /\ \E r \in Responses(script, command) : Finish(r, groups_main(command, args, r))

SendMessageMain ==
    /\ pc = "awaiting" /\ script = "send_message"
    /\ \E r \in Responses(script, command) : Finish(r, send_message_main(args, r))

ContactsMain ==
    /\ pc = "awaiting" /\ script = "contacts"
    /\ \E r \in Responses(script, command) : Finish(r, contacts_main(command, args, r))

ListChatsMain ==
    /\ pc = "awaiting" /\ script = "list_chats"
    /\ \E r \in Responses(script, command) : Finish(r, list_chats_main(command, args, r))

SendMediaMain ==
    /\ pc = "awaiting" /\ script = "send_media"
    /\ \E r \in Responses(script, command) : Finish(r, send_media_main(args, r))

SessionMain ==
    /\ pc = "awaiting" /\ script = "session"
    /\ \E r \in Responses(script, command) : Finish(r, session_main(command, args, r))

-----------------------------------------------------------------------------
(* One run of one script *)

\* env files and environments that decide the API key
KeyFiles ==
    { [exists |-> FALSE, lines |-> <<>>],
      [exists |-> TRUE, lines |-> <<>>],
      [exists |-> TRUE, lines |-> << <<"k", "=", "k">> >>],
      [exists |-> TRUE, lines |-> << <<"k", "=">>, <<"k", "=", "k">> >>],
      [exists |-> TRUE, lines |-> << <<"#", "k", "=", "k">> >>] }

KeyEnvirons ==
    { EmptyEnv, [x \in {API_KEY_NAME} |-> <<>>], [x \in {API_KEY_NAME} |-> <<"#">>] }

Init ==
    /\ environ \in KeyEnvirons
    /\ envFile \in KeyFiles
    /\ InitProcess

Next ==
    \/ ModuleInit
    \/ ParseArgs
    \/ EnterWith
    \/ SendRequest
    \/ TransportError
    \/ GroupsMain
    \/ SendMessageMain
    \/ ContactsMain
    \/ ListChatsMain
    \/ SendMediaMain
    \/ SessionMain

Spec == Init /\ [][Next]_vars

-----------------------------------------------------------------------------
(* Properties *)

\* the process has ended after its request was answered
Answered == pc = "exited" /\ resp # NoResp

\* the message die() writes for an HTTP error, as the spec words it
HttpErrorMessage(r) ==
    [t |-> "Error: HTTP", code |-> r.status,
     src |-> IF r.body.kind = "text" THEN "text" ELSE "json", body |-> r.body]

\* C1: a response with status >= 400 ends the process with exit code 1, the
\* message "HTTP <code>: <detail>" (detail: the decoded body, or the raw text
\* when it does not decode) on the diagnostic stream and nothing on standard
\* output; with a status < 400 check() does not end the process and returns
\* the decoded body.
C1_CheckAlwaysReturnsOnSuccess ==
    Answered =>
        IF resp.status >= 400
        THEN /\ exitCode = 1
             /\ stderr = <<HttpErrorMessage(resp)>>
             /\ stdout = <<>>
        ELSE /\ checked.tag = "return"
             /\ checked.data = resp.body

\* C1, amended: as C1 for a status >= 400; with a status < 400 check() returns
\* the decoded body when the body decodes as JSON, and when it does not, the
\* decoding error is not handled: the process ends with exit code 1 and has
\* written nothing to standard output.
C1_CheckContract ==
    Answered =>
        IF resp.status >= 400
        THEN /\ exitCode = 1
             /\ stderr = <<HttpErrorMessage(resp)>>
             /\ stdout = <<>>
             /\ checked.tag = "exit"
        ELSE IF resp.body.kind # "text"
        THEN /\ checked.tag = "return"
             /\ checked.data = resp.body
        ELSE /\ checked.tag = "raise"
             /\ exitCode = 1
             /\ stdout = <<>>

C1_Witness ==
    /\ Answered
    /\ resp.status = 400
    /\ resp.body.kind = "dict"
    /\ exitCode = 1
    /\ stderr = <<HttpErrorMessage(resp)>>

\* C2: when WAHA_API_KEY is absent or empty once the env file is loaded, the
\* process writes a diagnostic message and ends with exit code 1 before any
\* client is created and any request is issued; no request carries an empty
\* API key.
C2_NoClientWithoutKey ==
    LET key == IF API_KEY_NAME \in DOMAIN environ THEN environ[API_KEY_NAME]
               ELSE <<>>
    IN  /\ (pc # "import" /\ key = <<>>) =>
               /\ pc = "exited"
               /\ exitCode = 1
               /\ stderr = <<KeyErrorLine>>
               /\ cl = "none"
               /\ requests = <<>>
        /\ (cl # "none" \/ requests # <<>>) => (key # <<>> /\ API_KEY = key)
        /\ \A i \in 1..Len(requests) : requests[i].key # <<>>

\* the key is set in the environment, but empty, and the file would have set it
C2_Witness ==
    /\ pc = "exited"
    /\ exitCode = 1
    /\ cl = "none"
    /\ API_KEY_NAME \in DOMAIN environ0
    /\ environ[API_KEY_NAME] = <<>>
    /\ envFile.exists
    /\ \E i \in 1..Len(envFile.lines) : envFile.lines[i] = <<"k", "=", "k">>

\* the text without the whitespace at its two ends
Trimmed(s) ==
    LET idx == {i \in 1..Len(s) : s[i] # " "} IN
    IF idx = {} THEN <<>>
    ELSE LET lo == CHOOSE i \in idx : \A j \in idx : i <= j
             hi == CHOOSE i \in idx : \A j \in idx : j <= i
         IN  [i \in 1..(hi - lo + 1) |-> s[lo + i - 1]]

\* a line that is neither blank nor a comment
IsEntry(raw) == Trimmed(raw) # <<>> /\ Trimmed(raw)[1] # "#"

HasEq(raw) == \E i \in 1..Len(raw) : raw[i] = "="

FirstEq(raw) == CHOOSE i \in 1..Len(raw) : raw[i] = "=" /\ \A j \in 1..(i - 1) : raw[j] # "="

\* the two sides of the first "=" of a line, each trimmed
KeyOf(raw) == Trimmed([i \in 1..(FirstEq(raw) - 1) |-> raw[i]])
ValueOf(raw) == Trimmed([i \in 1..(Len(raw) - FirstEq(raw)) |-> raw[FirstEq(raw) + i]])

\* every entry of the file is NAME=VALUE with a name
WellFormed(lines) ==
    \A i \in 1..Len(lines) :
        IsEntry(lines[i]) => (HasEq(lines[i]) /\ KeyOf(lines[i]) # <<>>)

\* the first entry of the file that names key
FirstEntryOf(lines, key) ==
    CHOOSE i \in 1..Len(lines) :
        /\ IsEntry(lines[i]) /\ KeyOf(lines[i]) = key
        /\ \A j \in 1..(i - 1) : ~(IsEntry(lines[j]) /\ KeyOf(lines[j]) = key)

\* C3: _load_env never overwrites a name the environment already has; for a
\* well-formed file every name the environment lacks is set from the first
\* "=" split (name and value trimmed) of each line that is neither blank nor
\* a comment (the first such line, when several name it) and no other name is
\* set; without the file the environment is unchanged.
C3_LoadEnvFrame ==
    pc # "import" =>
        /\ \A k \in DOMAIN environ0 : k \in DOMAIN environ /\ environ[k] = environ0[k]
        /\ ~envFile.exists => environ = environ0
        /\ (envFile.exists /\ WellFormed(envFile.lines)) =>
              LET lines == envFile.lines IN
              /\ \A i \in 1..Len(lines) :
                    (IsEntry(lines[i]) /\ KeyOf(lines[i]) \notin DOMAIN environ0) =>
                        /\ KeyOf(lines[i]) \in DOMAIN environ
                        /\ environ[KeyOf(lines[i])] =
                               ValueOf(lines[FirstEntryOf(lines, KeyOf(lines[i]))])
              /\ \A k \in (DOMAIN environ) \ (DOMAIN environ0) :
                    \E i \in 1..Len(lines) : IsEntry(lines[i]) /\ KeyOf(lines[i]) = k

\* a name the environment has is met in the file with another value, and a
\* name it lacks is set from the file
C3_Witness ==
    /\ pc # "import"
    /\ envFile.exists
    /\ WellFormed(envFile.lines)
    /\ Len(envFile.lines) = 2
    /\ \E i \in 1..2 :
          /\ IsEntry(envFile.lines[i])
          /\ KeyOf(envFile.lines[i]) \in DOMAIN environ0
          /\ ValueOf(envFile.lines[i]) # environ0[KeyOf(envFile.lines[i])]
    /\ (DOMAIN environ) \ (DOMAIN environ0) # {}

\* the commands that print a list, and the noun of their count line
ListStyle ==
    \/ script = "groups" /\ command \in {"list", "participants"}
    \/ script = "contacts" /\ command = "list"
    \/ script = "session" /\ command = "list"
    \/ script = "list_chats"

NounOf ==
    CASE script = "groups" /\ command = "list" -> "groups"
      [] script = "groups" /\ command = "participants" -> "participants"
      [] script = "contacts" -> "contacts"
      [] script = "session" -> "sessions"
      [] script = "list_chats" /\ command = "messages" -> "messages"
      [] script = "list_chats" /\ command # "messages" -> "chats"
      [] OTHER -> ""

\* a list-style command got a JSON array with a success status
GotArray == Answered /\ ListStyle /\ resp.status < 400 /\ resp.body.kind = "list"

\* an item the print loop of the command can print: a JSON object (for the
\* overview, one whose lastMessage and body have a type the loop can read)
Printable(x) ==
    /\ x.isObj
    /\ (script = "list_chats" /\ command = "overview") =>
           x.lastMessage \notin {"nondict", "unsliceable"}

AllPrintable(xs) == \A i \in 1..Len(xs) : Printable(xs[i])

\* the lines of standard output that are not empty
RECURSIVE NonBlank(_)
NonBlank(ls) ==
    IF ls = <<>> THEN <<>>
    ELSE IF Head(ls).t = "blank" THEN NonBlank(Tail(ls))
    ELSE <<Head(ls)>> \o NonBlank(Tail(ls))

CountLine(n, noun) ==
    [t |-> "count", id |-> 0, ts |-> 0, n |-> n, text |-> <<noun>>, data |-> NoBody]

\* C4: with status 200 and a JSON array of N items (taken here as N JSON
\* objects of the expected shape), every list-style command prints exactly N
\* summary lines and one trailing count line "(N <noun>)".
C4_NLinesAndCount ==
    (GotArray /\ resp.status = 200 /\ AllPrintable(resp.body.items)) =>
        LET n   == Len(resp.body.items)
            out == NonBlank(stdout)
        IN  /\ Len(out) = n + 1
            /\ out[n + 1] = CountLine(n, NounOf)

\* how many of the first i items carry a preview
Previews(xs, i) == Cardinality({j \in 1..i : xs[j].lastMessage = "body"})

\* C4, amended: with a success status and a JSON array of N printable items,
\* groups list, groups participants, contacts list, session list and
\* list_chats chats print N summary lines, one per item in the order received;
\* list_chats overview prints the same and, after the summary line of each
\* chat whose last message has a body, one preview line; list_chats messages
\* prints two lines for each message (the message, then its id), last message
\* received first; each then
\* prints an empty line and the count line "(N <noun>)" and exits with code 0.
\* When an item is not printable the command prints the lines of the items
\* that come before it in the order of printing, then ends on an unhandled
\* exception with exit code 1 and prints no count line.
C4_ListOutput ==
    GotArray =>
        LET xs == resp.body.items
            n  == Len(xs)
        IN  IF AllPrintable(xs)
            THEN /\ exitCode = 0
                 /\ stderr = <<>>
                 /\ Len(stdout) >= 2
                 /\ stdout[Len(stdout) - 1].t = "blank"
                 /\ stdout[Len(stdout)] = CountLine(n, NounOf)
                 /\ IF command = "messages"
                    THEN /\ Len(stdout) = 2 * n + 2
                         /\ \A i \in 1..n :
                               /\ stdout[2 * i - 1].t = "message"
                               /\ stdout[2 * i - 1].id = xs[n + 1 - i].id
                               /\ stdout[2 * i].t = "message id"
                               /\ stdout[2 * i].id = xs[n + 1 - i].id
                    ELSE IF command = "overview"
                    THEN /\ Len(stdout) = n + Previews(xs, n) + 2
                         /\ \A i \in 1..n :
                               LET at == i + Previews(xs, i - 1) IN
                               /\ stdout[at].t = "summary"
                               /\ stdout[at].id = xs[i].id
                               /\ xs[i].lastMessage = "body" =>
                                      stdout[at + 1].t = "preview"
                    ELSE /\ Len(stdout) = n + 2
                         /\ \A i \in 1..n :
                               stdout[i].t = "summary" /\ stdout[i].id = xs[i].id
            ELSE LET ys  == IF command = "messages" THEN [i \in 1..n |-> xs[n + 1 - i]]
                            ELSE xs
                     bad == CHOOSE i \in 1..n :
                                ~Printable(ys[i]) /\ \A j \in 1..(i - 1) : Printable(ys[j])
                     per == IF command = "messages" THEN 2 ELSE 1
                 IN  /\ exitCode = 1
                     /\ Len(stderr) = 1
                     /\ \A i \in 1..Len(stdout) : stdout[i].t \notin {"count", "blank", "dump"}
                     /\ Len(stdout) = per * (bad - 1) + Previews(ys, bad - 1)

\* two messages, both printed on two lines, then the count
C4_Witness ==
    /\ GotArray
    /\ command = "messages"
    /\ Len(resp.body.items) = 2
    /\ AllPrintable(resp.body.items)
    /\ Len(stdout) = 6
    /\ exitCode = 0

\* C5: the payload of send_media has the key "convert" (with value true)
\* exactly when media_type is video or voice, whatever the other options, and
\* the request is a POST to the endpoint of the media type.
C5_ConvertIffVideoOrVoice ==
    script = "send_media" =>
        \A i \in 1..Len(requests) :
            LET q == requests[i] IN
            /\ ("convert" \in DOMAIN q.json) <=> (args.media_type \in {"video", "voice"})
            /\ ("convert" \in DOMAIN q.json) => q.json["convert"] = "true"
            /\ q.method = "POST"
            /\ q.path = CASE args.media_type = "image" -> <<"api", "sendImage">>
                          [] args.media_type = "file"  -> <<"api", "sendFile">>
                          [] args.media_type = "video" -> <<"api", "sendVideo">>
                          [] args.media_type = "voice" -> <<"api", "sendVoice">>

\* a voice message with every option given went out with convert
C5_Witness ==
    /\ script = "send_media"
    /\ args.media_type = "voice"
    /\ args.caption = "x" /\ args.reply_to = "x" /\ args.filename = "x"
    /\ Len(requests) = 1
    /\ "convert" \in DOMAIN requests[1].json
    /\ "caption" \in DOMAIN requests[1].json

CheckedNumber == Answered /\ script = "contacts" /\ command = "check" /\ resp.status < 400

SentenceLine(status) ==
    [t |-> "sentence", id |-> 0, ts |-> 0, n |-> 0, text |-> <<args.target, status>>,
     data |-> NoBody]

Printed(l) == \E i \in 1..Len(stdout) : stdout[i] = l

\* C6: for every successful response to `contacts check <phone>` (taken here
\* as every one whose body decodes), the command prints "Number <phone>
\* exists on WhatsApp" when the response has a truthy numberExists or chatId
\* and "Number <phone> NOT found on WhatsApp" for every other body, bodies
\* that are no JSON object included.
C6_SentenceForEveryBody ==
    (CheckedNumber /\ resp.body.kind # "text") =>
        IF resp.body.kind = "dict"
           /\ (resp.body.numberExists = "truthy" \/ resp.body.chatId = "truthy")
        THEN Printed(SentenceLine("exists"))
        ELSE Printed(SentenceLine("NOT found"))

\* C6, amended: for a successful response whose body is a JSON object the
\* command prints the dump of the body and then "Number <phone> exists on
\* WhatsApp" when numberExists or chatId is truthy and "Number <phone> NOT
\* found on WhatsApp" otherwise; for a body that decodes to something else it
\* prints the dump alone, and no sentence; both exit with code 0.  A body
\* that does not decode ends the process with exit code 1 and no output.
C6_SentenceForObjects ==
    CheckedNumber =>
        LET dump == [t |-> "dump", id |-> 0, ts |-> 0, n |-> 0, text |-> <<>>,
                     data |-> resp.body]
        IN  IF resp.body.kind = "dict"
            THEN /\ exitCode = 0
                 /\ stdout = <<dump,
                               SentenceLine(IF resp.body.numberExists = "truthy"
                                               \/ resp.body.chatId = "truthy"
                                            THEN "exists" ELSE "NOT found")>>
            ELSE IF resp.body.kind # "text"
            THEN exitCode = 0 /\ stdout = <<dump>>
            ELSE exitCode = 1 /\ stdout = <<>>

\* chatId alone says that the number exists
C6_Witness ==
    /\ CheckedNumber
    /\ resp.body.kind = "dict"
    /\ resp.body.numberExists = "falsy"
    /\ resp.body.chatId = "truthy"
    /\ Printed(SentenceLine("exists"))

\* the lines of standard output that show a message
RECURSIVE MessageLines(_)
MessageLines(ls) ==
    IF ls = <<>> THEN <<>>
    ELSE IF Head(ls).t = "message" THEN <<Head(ls)>> \o MessageLines(Tail(ls))
    ELSE MessageLines(Tail(ls))

GotMessages ==
    /\ GotArray
    /\ command = "messages"
    /\ \A i \in 1..Len(resp.body.items) : resp.body.items[i].isObj

\* C7: `list_chats messages` with an array of N messages prints the messages
\* in the reverse of the order received, each exactly once, so that a page
\* received newest first reads oldest first, and the count line reports N.
C7_MessagesReversed ==
    GotMessages =>
        LET xs == resp.body.items
            n  == Len(xs)
            ms == MessageLines(stdout)
        IN  /\ Len(ms) = n
            /\ \A i \in 1..n : ms[i].id = xs[n + 1 - i].id /\ ms[i].ts = xs[n + 1 - i].ts
            /\ (\A i \in 1..(n - 1) : xs[i].ts >= xs[i + 1].ts) =>
                   (\A i \in 1..(n - 1) : ms[i].ts <= ms[i + 1].ts)
            /\ stdout[Len(stdout)].t = "count"
            /\ stdout[Len(stdout)].n = n

\* the newer message came first and is printed second
C7_Witness ==
    /\ GotMessages
    /\ Len(resp.body.items) = 2
    /\ resp.body.items[1].ts > resp.body.items[2].ts
    /\ resp.body.items[1].id # resp.body.items[2].id
    /\ MessageLines(stdout)[1].ts < MessageLines(stdout)[2].ts

\* C8: a run that passes the API-key check and argument parsing issues
\* exactly one HTTP request, whatever the command and the response: never a
\* second one, and one by the time the process ends.
C8_OneRequest ==
    /\ Len(requests) <= 1
    /\ (pc = "exited" /\ command # NoneV) => Len(requests) = 1
    /\ resp # NoResp => Len(requests) = 1
    /\ command = NoneV => requests = <<>>

\* an HTTP error ended the run and the request was not repeated
C8_Witness ==
    /\ Answered
    /\ resp.status >= 400
    /\ Len(requests) = 1

\* C9: the client of the with block is closed on every way out of the block
\* before the process ends (normal end, sys.exit in check(), an exception not
\* handled), and is open whenever it is used.
C9_ClientReleased ==
    /\ (pc = "exited" /\ command # NoneV) => cl = "closed"
    /\ pc \in {"in_with", "awaiting"} => cl = "open"
    /\ cl = "closed" => pc = "exited"
    /\ requests # <<>> => cl # "none"

\* the process ended in the print loop, on an exception, with the client closed
C9_Witness ==
    /\ GotArray
    /\ exitCode = 1
    /\ stdout # <<>>
    /\ cl = "closed"

\* C10: for a list-style command, a successful response whose decoded body
\* has an unexpected shape never makes the command fail; a body that is no
\* list is dumped by pp, with no summary and no count line, and the exit code
\* is 0.
C10_LenientOnShape ==
    (Answered /\ ListStyle /\ resp.status < 400 /\ resp.body.kind # "text") =>
        /\ exitCode = 0
        /\ resp.body.kind # "list" =>
               /\ Len(stdout) = 1
               /\ stdout[1].t = "dump"
               /\ stdout[1].data = resp.body

====
